---- MODULE Spec2Model ----
(***************************************************************************)
(* SupportHub: the ticket lifecycle of server_app.py (Ticket model, the    *)
(* /tickets/{id}/action handler in its two variants) together with the     *)
(* user table and session cookies the handler depends on.                  *)
(*                                                                         *)
(* Nullable columns are modelled as sets: {} is NULL, {v} is the value v.  *)
(* Time is counted in ticks; TicksPerSec ticks make one second, so that    *)
(* int(timedelta.total_seconds()) really truncates.                        *)
(***************************************************************************)
EXTENDS Integers, Sequences, FiniteSets, TLC

\* ---------------------------------------------------------------- bounds
MaxClock    == 4
MaxCreate   == 1
TicksPerSec == 2
MaxRequests == 2
MaxVersion  == 3

\* ------------------------------------------------------- nullable values
Null      == {}
Some(v)   == {v}
Val(o)    == CHOOSE v \in o : TRUE

\* ---------------------------------------------------------- input spaces
Usernames     == {"ADMIN", "alice", "admin"}
TicketIds     == {1}
AdminPassword == "259487123"

\* values of the optional form fields 'reason' and 'solution'
TextInputs     == {Null, Some(""), Some(" "), Some(" a ")}
TicketIdInputs == {1, 2}
Variants       == {"lenient", "strict"}
Workers        == {"w1", "w2"}

\* session cookie, form field 'who' and form field 'password' of a request:
\* no cookie; ADMIN acting for itself; a wrong password; ADMIN's session naming
\* alice in 'who'; alice acting for herself; a username nobody has
AuthInputs ==
    { [cookie |-> Null,          who |-> Null,            password |-> AdminPassword],
      [cookie |-> Some("ADMIN"), who |-> Null,            password |-> AdminPassword],
      [cookie |-> Some("ADMIN"), who |-> Some(""),        password |-> "bad"],
      [cookie |-> Some("ADMIN"), who |-> Some(" alice "), password |-> " pw "],
      [cookie |-> Some("alice"), who |-> Null,            password |-> " pw "],
      [cookie |-> Some("ADMIN"), who |-> Some("ghost"),   password |-> "bad"] }

\* ------------------------------------------------------- string helpers
RECURSIVE LStrip(_)
LStrip(s) == IF Len(s) > 0 /\ SubSeq(s, 1, 1) = " " THEN LStrip(Tail(s)) ELSE s

RECURSIVE RStrip(_)
RStrip(s) ==
    IF Len(s) > 0 /\ SubSeq(s, Len(s), Len(s)) = " "
    THEN RStrip(SubSeq(s, 1, Len(s) - 1))
    ELSE s

\* str.strip()
Strip(s) == RStrip(LStrip(s))

LowerChar(c) ==
    CASE c = "D" -> "d"
      [] c = "H" -> "h"
      [] c = "C" -> "c"
      [] c = "A" -> "a"
      [] c = "M" -> "m"
      [] c = "I" -> "i"
      [] c = "N" -> "n"
      [] c = "O" -> "o"
      [] OTHER   -> c

\* str.lower()
RECURSIVE Lower(_)
Lower(s) == IF Len(s) = 0 THEN s ELSE LowerChar(SubSeq(s, 1, 1)) \o Lower(Tail(s))

UpperChar(c) ==
    CASE c = "a" -> "A"
      [] c = "d" -> "D"
      [] c = "m" -> "M"
      [] c = "i" -> "I"
      [] c = "n" -> "N"
      [] c = "l" -> "L"
      [] c = "c" -> "C"
      [] c = "e" -> "E"
      [] OTHER   -> c

\* str.upper()
RECURSIVE Upper(_)
Upper(s) == IF Len(s) = 0 THEN s ELSE UpperChar(SubSeq(s, 1, 1)) \o Upper(Tail(s))

\* truthiness of an Optional[str]: not None and not empty
Truthy(o) == o # Null /\ Val(o) # ""

\* (x or "").strip()
OrEmptyStrip(o) == IF Truthy(o) THEN Strip(Val(o)) ELSE ""

\* mutant of NonBlank: the text is not stripped before the test
NonBlankNoStrip(o) == Truthy(o)

\* reason and reason.strip()
NonBlank(o) == Truthy(o) /\ Strip(Val(o)) # ""

\* ------------------------------------------------------------- passwords
sha256(s) == <<"sha256", s>>

\* verify_password: both sides stripped; a 64-hex stored value is compared with
\* the hash of the plain side, anything else (a legacy row <<"plain", p>> that
\* keeps the password itself) with the plain side itself
verify_password(plain, stored) ==
    IF stored[1] = "sha256"
    THEN sha256(Strip(plain)) = stored
    ELSE Strip(plain) = Strip(stored[2])

\* mutant of IntSeconds: rounds a started second up
IntSecondsRoundUp(d) == (d + TicksPerSec - 1) \div TicksPerSec

\* int(timedelta.total_seconds()): truncation toward zero, whole seconds
IntSeconds(d) == IF d >= 0 THEN d \div TicksPerSec ELSE -((-d) \div TicksPerSec)

\* ---------------------------------------------------------------- Ticket
\* mutant of NewTicket: the row is inserted as already being worked on
NewTicketStarted(now) ==
    [ created_at       |-> now,
      closed_at        |-> Null,
      status           |-> "DOING",
      doing_started_at |-> Some(now),
      hold_started_at  |-> Null,
      doing_secs       |-> 0,
      hold_secs        |-> 0,
      current_actor    |-> Null,
      last_action      |-> Null,
      hold_reason      |-> Null,
      solution         |-> Null,
      done_by          |-> Null,
      cancel_reason    |-> Null,
      canceled_by      |-> Null ]

\* Ticket(...) after INSERT: column defaults applied.  The requester and the
\* classification columns are never read by the lifecycle and are left out.
NewTicket(now) ==
    [ created_at       |-> now,
      closed_at        |-> Null,
      status           |-> "PENDING",
      doing_started_at |-> Null,
      hold_started_at  |-> Null,
      doing_secs       |-> 0,
      hold_secs        |-> 0,
      current_actor    |-> Null,
      last_action      |-> Null,
      hold_reason      |-> Null,
      solution         |-> Null,
      done_by          |-> Null,
      cancel_reason    |-> Null,
      canceled_by      |-> Null ]

\* mutant of _acc_doing_until_now: the flush restarts the interval at now
AccDoingRestarts(t, now) ==
    IF t.doing_started_at # Null
    THEN [t EXCEPT !.doing_secs = @ + IntSeconds(now - Val(t.doing_started_at)),
                   !.doing_started_at = Some(now)]
    ELSE t

\* mutant of _acc_doing_until_now: the flush forgets to clear doing_started_at
AccDoingKeepsStart(t, now) ==
    IF t.doing_started_at # Null
    THEN [t EXCEPT !.doing_secs = @ + IntSeconds(now - Val(t.doing_started_at))]
    ELSE t

_acc_doing_until_now(t, now) ==
    IF t.doing_started_at # Null
    THEN [t EXCEPT !.doing_secs = @ + IntSeconds(now - Val(t.doing_started_at)),
                   !.doing_started_at = Null]
    ELSE t

\* mutant of _acc_hold_until_now: "=" written for "+="
AccHoldAssigns(t, now) ==
    IF t.hold_started_at # Null
    THEN [t EXCEPT !.hold_secs = IntSeconds(now - Val(t.hold_started_at)),
                   !.hold_started_at = Null]
    ELSE t

_acc_hold_until_now(t, now) ==
    IF t.hold_started_at # Null
    THEN [t EXCEPT !.hold_secs = @ + IntSeconds(now - Val(t.hold_started_at)),
                   !.hold_started_at = Null]
    ELSE t

\* mutant of start_doing: the open hold interval is not flushed
StartDoingNoFlush(t, n1, n2) ==
    [t EXCEPT !.doing_started_at = Some(n2), !.status = "DOING"]

\* start_doing reads the clock twice: n1 in the flush, n2 for the new start
start_doing(t, n1, n2) ==
    [_acc_hold_until_now(t, n1) EXCEPT !.doing_started_at = Some(n2),
                                       !.status = "DOING"]

\* mutant of start_hold: the open busy interval is left open
StartHoldNoFlush(t, reason, n1, n2) ==
    [t EXCEPT !.hold_started_at = Some(n2),
              !.hold_reason = Some(OrEmptyStrip(Some(reason))),
              !.status = "HOLD"]

start_hold(t, reason, n1, n2) ==
    [_acc_doing_until_now(t, n1) EXCEPT !.hold_started_at = Some(n2),
                                        !.hold_reason = Some(OrEmptyStrip(Some(reason))),
                                        !.status = "HOLD"]

\* mutant of done: closed_at comes from a second, later reading of the clock
DoneTwoInstants(t, sol, by, now) ==
    [_acc_hold_until_now(_acc_doing_until_now(t, now), now)
        EXCEPT !.status = "DONE",
               !.closed_at = Some(now + 1),
               !.solution = Some(OrEmptyStrip(Some(sol))),
               !.done_by = Some(by)]

done(t, sol, by, now) ==
    [_acc_hold_until_now(_acc_doing_until_now(t, now), now)
        EXCEPT !.status = "DONE",
               !.closed_at = Some(now),
               !.solution = Some(OrEmptyStrip(Some(sol))),
               !.done_by = Some(by)]

cancel(t, reason, by, now) ==
    [_acc_hold_until_now(_acc_doing_until_now(t, now), now)
        EXCEPT !.status = "CANCELLED",
               !.closed_at = Some(now),
               !.cancel_reason = Some(OrEmptyStrip(Some(reason))),
               !.canceled_by = Some(by)]

\* export_excel: the derived columns of a report row
\* sum_secs = int((closed_at - created_at).total_seconds()) if closed_at else 0
ReportSumSecs(t) ==
    IF t.closed_at # Null THEN IntSeconds(Val(t.closed_at) - t.created_at) ELSE 0

\* mutant of ReportWaiting: the hold time is not subtracted
ReportWaitingIgnoresHold(t) ==
    LET w == ReportSumSecs(t) - t.doing_secs IN IF w > 0 THEN w ELSE 0

\* waiting = max(0, sum_secs - doing - hold)
ReportWaiting(t) ==
    LET w == ReportSumSecs(t) - t.doing_secs - t.hold_secs IN IF w > 0 THEN w ELSE 0

\* ----------------------------------------------------------------- state
VARIABLES
    variant,    \* which server_app.py is deployed
    clock,      \* datetime.utcnow(), in ticks
    users,      \* users table: username -> NULL or the row
    tickets,    \* tickets table: sequence of rows, id = index
    inflight,   \* log of the requests served on overlapping worker threads
    ACTIVE_VERSION, \* the reload counter of the Active page
    workers     \* worker thread -> where it is between db.commit() and the
                \* end of bump_active_version(), and the value it has read

\* the counter is followed in SpecVersion only, where a handler is split at
\* its commit and at the steps of bump_active_version
reload == <<ACTIVE_VERSION, workers>>

vars == <<variant, clock, users, tickets, inflight, ACTIVE_VERSION, workers>>

UserExists(us, name) == name \in Usernames /\ us[name] # Null

\* get_current_user: the cookie must be present, carry a valid signature (any
\* cookie a client holds was signed by do_login for the username it names), and
\* name a user that still exists
SessionOK(us, cookie) == cookie # Null /\ UserExists(us, Val(cookie))

\* _ensure_admin_user() on an empty database
Init ==
    /\ variant \in Variants
    /\ clock = 0
    /\ users = [u \in Usernames |->
                  IF u = "ADMIN"
                  THEN Some([password_hash |-> sha256(AdminPassword), role |-> "Admin"])
                  ELSE Null]
    /\ tickets = <<>>
    /\ inflight = <<>>
    /\ ACTIVE_VERSION = 0
    /\ workers = [w \in Workers |-> [pc |-> "idle", tmp |-> 0]]

\* time passes between requests
Tick ==
    /\ clock < MaxClock
    /\ clock' = clock + 1
    /\ UNCHANGED <<variant, users, tickets, inflight, reload>>

\* POST /signup: the new users table (unchanged when the request is refused)
SignupOutcome(us, username, password, role) ==
    LET name == Strip(username) IN
    IF name = "" \/ password = ""
    THEN us
    ELSE IF UserExists(us, name)
    THEN us
    ELSE [us EXCEPT ![name] = Some([password_hash |-> sha256(password), role |-> role])]

SignupInputs ==
    { [username |-> " ",       password |-> "pw"],
      [username |-> " alice ", password |-> ""],
      [username |-> " alice ", password |-> "pw"],
      [username |-> "ADMIN",   password |-> "pw"] }

do_signup ==
    \E f \in SignupInputs, role \in {"Operator", "Admin"} :
        /\ users' = SignupOutcome(users, f.username, f.password, role)
        /\ UNCHANGED <<variant, clock, tickets, inflight, reload>>

\* POST /request/create
create_request ==
    \E cookie \in {a.cookie : a \in AuthInputs} :
        IF ~SessionOK(users, cookie)
        THEN UNCHANGED vars
        ELSE /\ Len(tickets) + 1 \in TicketIds
             /\ clock <= MaxCreate
             /\ tickets' = Append(tickets, NewTicket(clock))
             /\ UNCHANGED <<variant, clock, users, inflight, reload>>

\* mutant of OwnershipConflict: the strict variant checks everything but done
OwnershipConflictStrictSkipsDone(v, t, act, actorname) ==
    /\ t.status \in {"DOING", "HOLD"}
    /\ v = "lenient" => act = "done"
    /\ v = "strict" => act # "done"
    /\ Truthy(t.current_actor)
    /\ Val(t.current_actor) # actorname

\* mutant of OwnershipConflict: the comparison with current_actor is inverted
OwnershipConflictInverted(v, t, act, actorname) ==
    /\ t.status \in {"DOING", "HOLD"}
    /\ v = "lenient" => act = "done"
    /\ Truthy(t.current_actor)
    /\ Val(t.current_actor) = actorname

\* the arbitration check of ticket_action: the lenient variant (server_app.py)
\* applies it to done only, the strict variant (supporthub/supporthub) to every action
OwnershipConflict(v, t, act, actorname) ==
    /\ t.status \in {"DOING", "HOLD"}
    /\ v = "lenient" => act = "done"
    /\ Truthy(t.current_actor)
    /\ Val(t.current_actor) # actorname

\* mutant of Rejected: every refusal is the same generic failure
RejectedGeneric(code, detail, t) ==
    [ok |-> FALSE, code |-> 400, detail |-> "error", ticket |-> t]

\* raise HTTPException(...): nothing is committed
Rejected(code, detail, t) == [ok |-> FALSE, code |-> code, detail |-> detail, ticket |-> t]

\* db.add(ticket); db.commit(); return {"ok": True, ...}
Accepted(t) == [ok |-> TRUE, code |-> 200, detail |-> "ok", ticket |-> t]

\* mutant of DoingBranch: last_action is not written
DoingBranchKeepsLastAction(t, actorname, n1, n2) ==
    [start_doing(t, n1, n2) EXCEPT !.current_actor = Some(actorname)]

\* the four mutating branches of ticket_action
DoingBranch(t, actorname, n1, n2) ==
    [start_doing(t, n1, n2) EXCEPT !.current_actor = Some(actorname),
                                   !.last_action = Some("doing")]

HoldBranch(t, reason, actorname, n1, n2) ==
    [start_hold(t, Strip(reason), n1, n2) EXCEPT !.current_actor = Some(actorname),
                                                 !.last_action = Some("hold")]

\* mutant of DoneBranch: current_actor is not reset
DoneBranchKeepsActor(t, solution, actorname, now) ==
    [done(t, Strip(solution), actorname, now) EXCEPT !.last_action = Some("done")]

DoneBranch(t, solution, actorname, now) ==
    [done(t, Strip(solution), actorname, now) EXCEPT !.current_actor = Null,
                                                     !.last_action = Some("done")]

CancelBranch(t, reason, actorname, now) ==
    [cancel(t, Strip(reason), actorname, now) EXCEPT !.current_actor = Null,
                                                     !.last_action = Some("cancel")]

\* mutant of ApplyAction: hold, done and cancel write the ticket before the
\* text is validated
ApplyActionMutatesFirst(v, t, act, actorname, reason, solution, n1, n2) ==
    IF OwnershipConflict(v, t, act, actorname)
    THEN Rejected(409, "owner_conflict", t)
    ELSE IF act = "doing" /\ t.status = "DOING"
    THEN Rejected(409, "doing_twice", t)
    ELSE IF act = "hold" /\ t.status = "HOLD"
    THEN Rejected(409, "hold_twice", t)
    ELSE IF act = "doing"
    THEN Accepted(DoingBranch(t, actorname, n1, n2))
    ELSE IF act = "hold"
    THEN IF ~NonBlank(reason)
         THEN Rejected(400, "hold_reason_required",
                       HoldBranch(t, OrEmptyStrip(reason), actorname, n1, n2))
         ELSE Accepted(HoldBranch(t, Val(reason), actorname, n1, n2))
    ELSE IF act = "done"
    THEN IF ~NonBlank(solution)
         THEN Rejected(400, "solution_required",
                       DoneBranch(t, OrEmptyStrip(solution), actorname, n1))
         ELSE Accepted(DoneBranch(t, Val(solution), actorname, n1))
    ELSE IF act = "cancel"
    THEN IF ~NonBlank(reason)
         THEN Rejected(400, "cancel_reason_required",
                       CancelBranch(t, OrEmptyStrip(reason), actorname, n1))
         ELSE Accepted(CancelBranch(t, Val(reason), actorname, n1))
    ELSE Rejected(400, "invalid_action", t)

\* mutant of ApplyAction: the two "pressed twice" checks are missing
ApplyActionRestartsTimer(v, t, act, actorname, reason, solution, n1, n2) ==
    IF OwnershipConflict(v, t, act, actorname)
    THEN Rejected(409, "owner_conflict", t)
    ELSE IF act = "doing"
    THEN Accepted(DoingBranch(t, actorname, n1, n2))
    ELSE IF act = "hold"
    THEN IF ~NonBlank(reason)
         THEN Rejected(400, "hold_reason_required", t)
         ELSE Accepted(HoldBranch(t, Val(reason), actorname, n1, n2))
    ELSE IF act = "done"
    THEN IF ~NonBlank(solution)
         THEN Rejected(400, "solution_required", t)
         ELSE Accepted(DoneBranch(t, Val(solution), actorname, n1))
    ELSE IF act = "cancel"
    THEN IF ~NonBlank(reason)
         THEN Rejected(400, "cancel_reason_required", t)
         ELSE Accepted(CancelBranch(t, Val(reason), actorname, n1))
    ELSE Rejected(400, "invalid_action", t)

\* the body of ticket_action once the actor and the ticket have been loaded;
\* n1 and n2 are the two successive readings of datetime.utcnow()
ApplyAction(v, t, act, actorname, reason, solution, n1, n2) ==
    IF OwnershipConflict(v, t, act, actorname)
    THEN Rejected(409, "owner_conflict", t)
    ELSE IF act = "doing" /\ t.status = "DOING"
    THEN Rejected(409, "doing_twice", t)
    ELSE IF act = "hold" /\ t.status = "HOLD"
    THEN Rejected(409, "hold_twice", t)
    ELSE IF act = "doing"
    THEN Accepted(DoingBranch(t, actorname, n1, n2))
    ELSE IF act = "hold"
    THEN IF ~NonBlank(reason)
         THEN Rejected(400, "hold_reason_required", t)
         ELSE Accepted(HoldBranch(t, Val(reason), actorname, n1, n2))
    ELSE IF act = "done"
    THEN IF ~NonBlank(solution)
         THEN Rejected(400, "solution_required", t)
         ELSE Accepted(DoneBranch(t, Val(solution), actorname, n1))
    ELSE IF act = "cancel"
    THEN IF ~NonBlank(reason)
         THEN Rejected(400, "cancel_reason_required", t)
         ELSE Accepted(CancelBranch(t, Val(reason), actorname, n1))
    ELSE Rejected(400, "invalid_action", t)

\* mutant of Authenticate: the password is not verified
AuthenticateNoPassword(us, cookie, who, password) ==
    IF ~SessionOK(us, cookie)
    THEN [ok |-> FALSE, code |-> 401, detail |-> "not_logged_in", actor |-> ""]
    ELSE
    LET actorname == Strip(IF Truthy(who) THEN Val(who) ELSE Val(cookie)) IN
    IF ~UserExists(us, actorname)
    THEN [ok |-> FALSE, code |-> 404, detail |-> "user_not_found", actor |-> actorname]
    ELSE [ok |-> TRUE, code |-> 200, detail |-> "ok", actor |-> actorname]

\* the head of ticket_action: session, actor lookup, password check
Authenticate(us, cookie, who, password) ==
    IF ~SessionOK(us, cookie)
    THEN [ok |-> FALSE, code |-> 401, detail |-> "not_logged_in", actor |-> ""]
    ELSE
    LET actorname == Strip(IF Truthy(who) THEN Val(who) ELSE Val(cookie)) IN
    IF ~UserExists(us, actorname)
    THEN [ok |-> FALSE, code |-> 404, detail |-> "user_not_found", actor |-> actorname]
    ELSE IF ~verify_password(password, Val(us[actorname]).password_hash)
    THEN [ok |-> FALSE, code |-> 403, detail |-> "bad_password", actor |-> actorname]
    ELSE [ok |-> TRUE, code |-> 200, detail |-> "ok", actor |-> actorname]

\* the form fields action, reason and solution; a field the action never
\* reads is left out of the form
ActionRequests ==
    {[action |-> a, reason |-> Null, solution |-> Null] : a \in {"doing", "reopen"}}
    \cup {[action |-> a, reason |-> r, solution |-> Null] :
             a \in {"hold", "cancel"}, r \in TextInputs}
    \cup {[action |-> "done", reason |-> Null, solution |-> s] : s \in TextInputs}
    \cup {[action |-> " Done ", reason |-> Null, solution |-> Some(" a ")]}

\* action.lower().strip()
NormAction(action) == Strip(Lower(action))

\* how far the clock may move between the two readings one request makes
Drifts(act) == IF act \in {"doing", "hold"} THEN {0, 1} ELSE {0}

\* POST /tickets/{ticket_id}/action, from the session check to the commit
ticket_action ==
    \E f \in AuthInputs :
        LET a == Authenticate(users, f.cookie, f.who, f.password) IN
        IF ~a.ok
        THEN UNCHANGED vars
        ELSE \E ticket_id \in TicketIdInputs :
            IF ticket_id \notin DOMAIN tickets
            THEN UNCHANGED vars
            ELSE \E req \in ActionRequests :
                 \E d \in Drifts(NormAction(req.action)) :
                LET r == ApplyAction(variant, tickets[ticket_id], NormAction(req.action),
                                     a.actor, req.reason, req.solution, clock, clock + d)
                IN
                /\ clock + d <= MaxClock
                /\ tickets' = IF r.ok THEN [tickets EXCEPT ![ticket_id] = r.ticket]
                                      ELSE tickets
                /\ clock' = IF r.ok THEN clock + d ELSE clock
                /\ UNCHANGED <<variant, users, inflight, reload>>

Next ==
    \/ Tick
    \/ do_signup
    \/ create_request
    \/ ticket_action

Spec == Init /\ [][Next]_vars

\* ------------------------------------------------ overlapping requests
\* ticket_action is a plain def, so the server runs each request on a worker
\* thread with a Session of its own. db.query(Ticket)...first() reads the row
\* without holding a transaction open; db.commit() flushes one UPDATE that sets
\* the columns whose value the request changed on its own copy of the row.

\* the UPDATE a commit flushes, applied to the row as it is stored by then
CommitColumns(stored, loaded, result) ==
    [f \in DOMAIN stored |-> IF result[f] # loaded[f] THEN result[f] ELSE stored[f]]

\* ticket_action from the session check to the end of the in-memory change
ticket_action_load ==
    \E f \in AuthInputs :
        LET a == Authenticate(users, f.cookie, f.who, f.password) IN
        IF ~a.ok
        THEN UNCHANGED vars
        ELSE \E ticket_id \in TicketIdInputs :
            IF ticket_id \notin DOMAIN tickets
            THEN UNCHANGED vars
            ELSE \E req \in ActionRequests :
                 \E d \in Drifts(NormAction(req.action)) :
                LET r == ApplyAction(variant, tickets[ticket_id], NormAction(req.action),
                                     a.actor, req.reason, req.solution, clock, clock + d)
                IN
                /\ clock + d <= MaxClock
                /\ Len(inflight) < MaxRequests
                /\ inflight' = IF r.ok
                               THEN Append(inflight, [id |-> ticket_id,
                                                      loaded |-> tickets[ticket_id],
                                                      result |-> r.ticket,
                                                      committed |-> FALSE])
                               ELSE inflight
                /\ clock' = IF r.ok THEN clock + d ELSE clock
                /\ UNCHANGED <<variant, users, tickets, reload>>

\* db.add(ticket); db.commit() of a request that has loaded and changed its copy
ticket_action_commit ==
    \E k \in DOMAIN inflight :
        LET q == inflight[k] IN
        /\ ~q.committed
        /\ tickets' = [tickets EXCEPT ![q.id] = CommitColumns(tickets[q.id], q.loaded, q.result)]
        /\ inflight' = [inflight EXCEPT ![k].committed = TRUE]
        /\ UNCHANGED <<variant, clock, users, reload>>

NextConc ==
    \/ Tick
    \/ create_request
    \/ ticket_action_load
    \/ ticket_action_commit

SpecConc == Init /\ [][NextConc]_vars

\* ------------------------------------------------ the reload counter
\* mutant of LockHeld: bump_active_version takes no lock
LockNeverHeld == FALSE

\* _ACTIVE_LOCK is held by the worker that is inside "with _ACTIVE_LOCK:"
LockHeld == \E w \in Workers : workers[w].pc = "read"

\* the bumps that committed requests still owe
PendingBumps == Cardinality({w \in Workers : workers[w].pc # "idle"})

Committed(w) == [workers EXCEPT ![w] = [pc |-> "committed", tmp |-> 0]]

\* create_request on worker w, up to and including db.commit()
create_request_commit(w) ==
    \E cookie \in {a.cookie : a \in AuthInputs} :
        IF ~SessionOK(users, cookie)
        THEN UNCHANGED vars
        ELSE /\ Len(tickets) + 1 \in TicketIds
             /\ clock <= MaxCreate
             /\ tickets' = Append(tickets, NewTicket(clock))
             /\ workers' = Committed(w)
             /\ UNCHANGED <<variant, clock, users, inflight, ACTIVE_VERSION>>

\* ticket_action on worker w, up to and including db.commit()
ticket_action_served(w) ==
    \E f \in AuthInputs :
        LET a == Authenticate(users, f.cookie, f.who, f.password) IN
        IF ~a.ok
        THEN UNCHANGED vars
        ELSE \E ticket_id \in TicketIdInputs :
            IF ticket_id \notin DOMAIN tickets
            THEN UNCHANGED vars
            ELSE \E req \in ActionRequests :
                 \E d \in Drifts(NormAction(req.action)) :
                LET r == ApplyAction(variant, tickets[ticket_id], NormAction(req.action),
                                     a.actor, req.reason, req.solution, clock, clock + d)
                IN
                /\ clock + d <= MaxClock
                /\ tickets' = IF r.ok THEN [tickets EXCEPT ![ticket_id] = r.ticket]
                                      ELSE tickets
                /\ clock' = IF r.ok THEN clock + d ELSE clock
                /\ workers' = IF r.ok THEN Committed(w) ELSE workers
                /\ UNCHANGED <<variant, users, inflight, ACTIVE_VERSION>>

\* a worker thread takes a request and serves it to its commit
request_commit ==
    \E w \in Workers :
        /\ workers[w].pc = "idle"
        /\ ACTIVE_VERSION + PendingBumps < MaxVersion
        /\ create_request_commit(w) \/ ticket_action_served(w)

\* with _ACTIVE_LOCK: ... the read of ACTIVE_VERSION in "ACTIVE_VERSION += 1"
bump_read ==
    \E w \in Workers :
        /\ workers[w].pc = "committed"
        /\ ~LockHeld
        /\ workers' = [workers EXCEPT ![w] = [pc |-> "read", tmp |-> ACTIVE_VERSION]]
        /\ UNCHANGED <<variant, clock, users, tickets, inflight, ACTIVE_VERSION>>

\* the store of "ACTIVE_VERSION += 1" and the release of the lock
bump_write ==
    \E w \in Workers :
        /\ workers[w].pc = "read"
        /\ ACTIVE_VERSION' = workers[w].tmp + 1
        /\ workers' = [workers EXCEPT ![w] = [pc |-> "idle", tmp |-> 0]]
        /\ UNCHANGED <<variant, clock, users, tickets, inflight>>

NextVersion ==
    \/ request_commit
    \/ bump_read
    \/ bump_write

SpecVersion == Init /\ [][NextVersion]_vars

\* ------------------------------------------------ user administration
\* the session cookies a client may present: none, or one do_login signed
SessionCookies == {Null} \cup {Some(u) : u \in Usernames}

\* the guard of the /admin/users handlers, negated:
\* me.role.lower() != "admin" and me.username.upper() != "ADMIN" -> 403
IsAdminSession(us, me) ==
    Lower(Val(us[me]).role) = "admin" \/ Upper(me) = "ADMIN"

\* POST /admin/users/delete/{user_id}: the new users table (unchanged when the
\* request is refused); a row is named by its username
AdminDeleteOutcome(us, cookie, target) ==
    IF ~SessionOK(us, cookie)
    THEN us
    ELSE IF ~IsAdminSession(us, Val(cookie))
    THEN us
    ELSE IF ~UserExists(us, target)
    THEN us
    ELSE IF Upper(target) = "ADMIN"
    THEN us
    ELSE [us EXCEPT ![target] = Null]

admin_delete_user ==
    \E cookie \in SessionCookies, target \in Usernames :
        /\ users' = AdminDeleteOutcome(users, cookie, target)
        /\ UNCHANGED <<variant, clock, tickets, inflight, reload>>

\* the ticket desk together with the removal of users
NextStaff ==
    \/ do_signup
    \/ create_request
    \/ ticket_action
    \/ admin_delete_user

SpecStaff == Init /\ [][NextStaff]_vars

\* POST /login: the cookie the client receives (none when the user is unknown
\* or the password is wrong); the signed token carries the stored username
do_login(us, username, password) ==
    LET name == Strip(username) IN
    IF UserExists(us, name) /\ verify_password(password, Val(us[name]).password_hash)
    THEN Some(name)
    ELSE Null

\* POST /admin/users/create: the new users table (unchanged when refused)
AdminCreateOutcome(us, cookie, username, password, role) ==
    LET name == Strip(username) IN
    IF ~SessionOK(us, cookie)
    THEN us
    ELSE IF ~IsAdminSession(us, Val(cookie))
    THEN us
    ELSE IF name = "" \/ password = ""
    THEN us
    ELSE IF UserExists(us, name)
    THEN us
    ELSE [us EXCEPT ![name] = Some([password_hash |-> sha256(password), role |-> role])]

\* POST /admin/users/update/{user_id}: the new users table (unchanged when
\* refused); the role is always written, the password only when new_password
\* is not blank
AdminUpdateOutcome(us, cookie, target, role, new_password) ==
    IF ~SessionOK(us, cookie)
    THEN us
    ELSE IF ~IsAdminSession(us, Val(cookie))
    THEN us
    ELSE IF ~UserExists(us, target)
    THEN us
    ELSE IF Upper(target) = "ADMIN" /\ Upper(Val(cookie)) # "ADMIN"
    THEN us
    ELSE [us EXCEPT ![target] =
             Some([password_hash |-> IF NonBlank(new_password)
                                     THEN sha256(Strip(Val(new_password)))
                                     ELSE Val(us[target]).password_hash,
                   role          |-> role])]

\* form values of the user pages
Roles         == {"Operator", "Admin"}
NameInputs    == {" ", " alice ", "admin", "ADMIN"}
PasswordForms == {"", "pw"}
NewPasswords  == {Null, Some(" "), Some(" pw2 ")}

\* POST /signup with any of the names above
signup ==
    \E username \in NameInputs, password \in PasswordForms, role \in Roles :
        /\ users' = SignupOutcome(users, username, password, role)
        /\ UNCHANGED <<variant, clock, tickets, inflight, reload>>

admin_create_user ==
    \E cookie \in SessionCookies, username \in NameInputs,
       password \in PasswordForms, role \in Roles :
        /\ users' = AdminCreateOutcome(users, cookie, username, password, role)
        /\ UNCHANGED <<variant, clock, tickets, inflight, reload>>

admin_update_user ==
    \E cookie \in SessionCookies, target \in Usernames,
       role \in Roles, new_password \in NewPasswords :
        /\ users' = AdminUpdateOutcome(users, cookie, target, role, new_password)
        /\ UNCHANGED <<variant, clock, tickets, inflight, reload>>

\* the user pages alone
NextUsers ==
    \/ signup
    \/ admin_create_user
    \/ admin_update_user
    \/ admin_delete_user

SpecUsers == Init /\ [][NextUsers]_vars

\* ================================================================ claims
Terminal(t) == t.status \in {"DONE", "CANCELLED"}
Active(t)   == t.status \in {"DOING", "HOLD"}

\* the actors some request of AuthInputs authenticates in the current state
VerifiedActors ==
    {Authenticate(users, f.cookie, f.who, f.password).actor :
        f \in {g \in AuthInputs : Authenticate(users, g.cookie, g.who, g.password).ok}}

\* C1: once a ticket is DONE or CANCELLED no request changes it any more
\* (every later ticket_action is rejected, cancel on DONE included).
C1_TerminalIsFinal ==
    [][\A i \in DOMAIN tickets : Terminal(tickets[i]) => tickets'[i] = tickets[i]]_vars

\* C2: at most one of doing_started_at and hold_started_at is non-null.
C2_OneOpenInterval ==
    \A i \in DOMAIN tickets :
        ~(tickets[i].doing_started_at # Null /\ tickets[i].hold_started_at # Null)

\* a ticket that was DOING for a second and is now on HOLD
C2_Witness ==
    \E i \in DOMAIN tickets :
        /\ tickets[i].status = "HOLD"
        /\ tickets[i].hold_started_at # Null
        /\ tickets[i].doing_secs >= 1

\* whole seconds of the intervals open at the instant now
OpenElapsed(t, now) ==
    (IF t.doing_started_at # Null
     THEN (now - Val(t.doing_started_at)) \div TicksPerSec ELSE 0)
    + (IF t.hold_started_at # Null
       THEN (now - Val(t.hold_started_at)) \div TicksPerSec ELSE 0)

\* C3: doing_secs + hold_secs + the whole seconds of the open interval never
\* exceed now - created_at, at the current instant and at every later one.
C3_TimeNotOvercounted ==
    \A i \in DOMAIN tickets : \A now \in clock..MaxClock :
        (tickets[i].doing_secs + tickets[i].hold_secs + OpenElapsed(tickets[i], now))
            * TicksPerSec <= now - tickets[i].created_at

\* a second of DOING is accumulated and a HOLD interval is running
C3_Witness ==
    \E i \in DOMAIN tickets :
        /\ tickets[i].doing_secs >= 1
        /\ tickets[i].hold_started_at # Null
        /\ clock > Val(tickets[i].hold_started_at)

\* C4: closed_at is non-null if and only if status is DONE or CANCELLED.
C4_ClosedIffTerminal ==
    \A i \in DOMAIN tickets : (tickets[i].closed_at # Null) <=> Terminal(tickets[i])

\* C5: closed_at is set exactly once: once non-null, no request changes it.
C5_ClosedAtSetOnce ==
    [][\A i \in DOMAIN tickets :
          tickets[i].closed_at # Null => tickets'[i].closed_at = tickets[i].closed_at]_vars

\* C6: on a DOING or HOLD ticket with current_actor set, done from another
\* password-verified actor is rejected with the ownership conflict and changes
\* nothing; done from current_actor with a non-blank solution succeeds.
C6_DoneOnlyByOwner ==
    \A i \in DOMAIN tickets : \A actor \in VerifiedActors : \A sol \in TextInputs :
        LET t == tickets[i]
            r == ApplyAction(variant, t, "done", actor, Null, sol, clock, clock)
        IN
        (Active(t) /\ Truthy(t.current_actor)) =>
            IF Val(t.current_actor) # actor
            THEN ~r.ok /\ r.code = 409 /\ r.detail = "owner_conflict" /\ r.ticket = t
            ELSE NonBlank(sol) =>
                    /\ r.ok
                    /\ r.ticket.status = "DONE"
                    /\ r.ticket.done_by = Some(actor)

\* alice holds the ticket, ADMIN's done is refused as an ownership conflict and
\* alice's own done is accepted
C6_Witness ==
    \E i \in DOMAIN tickets :
        /\ Active(tickets[i])
        /\ tickets[i].current_actor = Some("alice")
        /\ {"ADMIN", "alice"} \subseteq VerifiedActors
        /\ ApplyAction(variant, tickets[i], "done", "ADMIN", Null, Some(" a "),
                       clock, clock).detail = "owner_conflict"
        /\ ApplyAction(variant, tickets[i], "done", "alice", Null, Some(" a "),
                       clock, clock).ok

\* C7: current_actor never changes from one actor directly to another one
\* (doing or hold by a different actor on a DOING or HOLD ticket is rejected).
C7_NoTakeover ==
    [][\A i \in DOMAIN tickets :
          (tickets[i].current_actor # Null /\ tickets'[i].current_actor # Null)
              => tickets'[i].current_actor = tickets[i].current_actor]_vars

\* C8: done is rejected unless the ticket is DOING or HOLD; a ticket never goes
\* from PENDING (or any other state than DOING and HOLD) to DONE.
C8_DoneNeedsActive ==
    [][\A i \in DOMAIN tickets :
          ~Active(tickets[i]) =>
              (tickets'[i] = tickets[i] \/ tickets'[i].last_action # Some("done"))]_vars

\* C9: current_actor is non-null only if status is DOING or HOLD.
C9_ActorOnlyWhileActive ==
    \A i \in DOMAIN tickets : tickets[i].current_actor # Null => Active(tickets[i])

\* a ticket that was closed by done: its actor is reset
C9_Witness ==
    \E i \in DOMAIN tickets :
        /\ tickets[i].status = "DONE"
        /\ tickets[i].done_by # Null
        /\ tickets[i].current_actor = Null

\* C10: doing_secs and hold_secs are non-negative integers and no request,
\* accepted or rejected, decreases either of them.
C10_AccumulatorsMonotone ==
    /\ [](\A i \in DOMAIN tickets :
            tickets[i].doing_secs \in Nat /\ tickets[i].hold_secs \in Nat)
    /\ [][\A i \in DOMAIN tickets :
            /\ tickets'[i].doing_secs >= tickets[i].doing_secs
            /\ tickets'[i].hold_secs >= tickets[i].hold_secs]_vars

\* a second of HOLD is accumulated and a further HOLD interval is running
C10_Witness ==
    \E i \in DOMAIN tickets :
        /\ tickets[i].hold_secs >= 1
        /\ tickets[i].status = "HOLD"
        /\ tickets[i].hold_started_at # Null

\* the scenario of the specification, in ticks: created at t0 = 0, doing at
\* 10 s, hold at 70 s, doing at 130 s, done at 190 s, all by alice
Sec(n) == n * TicksPerSec

ScenarioTicket(v) ==
    LET t0 == NewTicket(0)
        t1 == ApplyAction(v, t0, "doing", "alice", Null, Null, Sec(10), Sec(10)).ticket
        t2 == ApplyAction(v, t1, "hold", "alice", Some("waiting parts"), Null,
                          Sec(70), Sec(70)).ticket
        t3 == ApplyAction(v, t2, "doing", "alice", Null, Null, Sec(130), Sec(130)).ticket
    IN  ApplyAction(v, t3, "done", "alice", Null, Some("fixed"), Sec(190), Sec(190)).ticket

\* C11: every accepted transition out of DOING adds the whole seconds of the
\* interval that ends to doing_secs and nothing else changes doing_secs (so the
\* final doing_secs is the sum over the DOING intervals), the same for HOLD and
\* hold_secs; an interval starts at the instant its transition is applied; the
\* scenario ends with doing_secs = 120 and hold_secs = 60.
C11_SecsAreIntervalSums ==
    /\ \A v \in Variants :
          /\ ScenarioTicket(v).status = "DONE"
          /\ ScenarioTicket(v).doing_secs = 120
          /\ ScenarioTicket(v).hold_secs = 60
    /\ [][\A i \in DOMAIN tickets :
            LET t == tickets[i]
                u == tickets'[i]
                left(st) == t.status = st /\ u # t
            IN
            /\ u.doing_secs = t.doing_secs
                 + (IF left("DOING") /\ t.doing_started_at # Null
                    THEN (clock - Val(t.doing_started_at)) \div TicksPerSec ELSE 0)
            /\ u.hold_secs = t.hold_secs
                 + (IF left("HOLD") /\ t.hold_started_at # Null
                    THEN (clock - Val(t.hold_started_at)) \div TicksPerSec ELSE 0)
            /\ (u # t /\ u.status = "DOING") => u.doing_started_at = Some(clock')
            /\ (u # t /\ u.status = "HOLD") => u.hold_started_at = Some(clock')
            /\ (u # t /\ Terminal(u)) =>
                   u.doing_started_at = Null /\ u.hold_started_at = Null]_vars

\* a closed ticket that spent a second in DOING and a second in HOLD
C11_Witness ==
    \E i \in DOMAIN tickets :
        /\ Terminal(tickets[i])
        /\ tickets[i].doing_secs >= 1
        /\ tickets[i].hold_secs >= 1

BlankTexts == {Null, Some(""), Some(" ")}

\* C13 as stated: done with a blank solution, cancel with a blank reason and
\* hold with a blank reason are each rejected with a validation error (400) and
\* the ticket is unchanged.
C13_BlankIsValidationError ==
    \A i \in DOMAIN tickets : \A actor \in VerifiedActors :
    \A act \in {"hold", "done", "cancel"} : \A txt \in BlankTexts :
        LET t == tickets[i]
            r == ApplyAction(variant, t, act, actor, txt, txt, clock, clock)
        IN  ~r.ok /\ r.code = 400 /\ r.ticket = t

\* C13 amended: such a request is always rejected and the ticket is unchanged;
\* the error is the validation error (400) of the action unless the request is
\* refused earlier by the ownership check or, for hold on a HOLD ticket, by the
\* state-conflict check, which both answer 409.
C13_BlankRejected ==
    \A i \in DOMAIN tickets : \A actor \in VerifiedActors :
    \A act \in {"hold", "done", "cancel"} : \A txt \in BlankTexts :
        LET t == tickets[i]
            r == ApplyAction(variant, t, act, actor, txt, txt, clock, clock)
            required == CASE act = "hold" -> "hold_reason_required"
                          [] act = "done" -> "solution_required"
                          [] act = "cancel" -> "cancel_reason_required"
        IN
        /\ ~r.ok /\ r.ticket = t
        /\ IF OwnershipConflict(variant, t, act, actor)
           THEN r.code = 409 /\ r.detail = "owner_conflict"
           ELSE IF act = "hold" /\ t.status = "HOLD"
           THEN r.code = 409 /\ r.detail = "hold_twice"
           ELSE r.code = 400 /\ r.detail = required

\* the owner of a DOING ticket sends done with a whitespace-only solution
C13_Witness ==
    \E i \in DOMAIN tickets : \E actor \in VerifiedActors :
        /\ tickets[i].status = "DOING"
        /\ tickets[i].current_actor = Some(actor)
        /\ ApplyAction(variant, tickets[i], "done", actor, Null, Some(" "),
                       clock, clock).detail = "solution_required"

\* C14: a rejected ticket_action request leaves every field of the ticket as it
\* was: the ticket object a rejection leaves behind equals the loaded one
\* (validation precedes the first write), and a stored ticket changes only by
\* the commit of an accepted request of an authenticated actor.
C14_RejectionChangesNothing ==
    /\ [](\A i \in DOMAIN tickets : \A actor \in VerifiedActors :
          \A req \in ActionRequests : \A d \in Drifts(NormAction(req.action)) :
              LET r == ApplyAction(variant, tickets[i], NormAction(req.action), actor,
                                   req.reason, req.solution, clock, clock + d)
              IN  ~r.ok => r.ticket = tickets[i])
    /\ [][\A i \in DOMAIN tickets :
            tickets'[i] # tickets[i] =>
                LET u == tickets'[i]
                    act == IF u.last_action = Null THEN "" ELSE Val(u.last_action)
                    reason == IF act = "hold" THEN u.hold_reason ELSE u.cancel_reason
                IN  \E actor \in VerifiedActors :
                        LET r == ApplyAction(variant, tickets[i], act, actor, reason,
                                             u.solution, clock, clock')
                        IN  r.ok /\ u = r.ticket]_vars

\* a HOLD ticket for which requests are rejected at every stage: a request that
\* fails authentication, a hold pressed twice, a blank solution, an unknown action
C14_Witness ==
    \E i \in DOMAIN tickets : \E actor \in VerifiedActors :
        /\ tickets[i].status = "HOLD"
        /\ tickets[i].current_actor = Some(actor)
        /\ \E f \in AuthInputs : ~Authenticate(users, f.cookie, f.who, f.password).ok
        /\ ~ApplyAction(variant, tickets[i], "hold", actor, Some(" a "), Null,
                        clock, clock).ok
        /\ ~ApplyAction(variant, tickets[i], "done", actor, Null, Some(" "),
                        clock, clock).ok
        /\ ~ApplyAction(variant, tickets[i], "reopen", actor, Null, Null,
                        clock, clock).ok

\* C15: once every overlapping ticket_action request has committed, the stored
\* ticket is one a serial execution can produce: it never has both
\* doing_started_at and hold_started_at set, and never has status DONE or
\* CANCELLED together with an open interval.
C15_OverlapIsSerial ==
    (\A k \in DOMAIN inflight : inflight[k].committed) =>
        \A i \in DOMAIN tickets :
            /\ ~(tickets[i].doing_started_at # Null /\ tickets[i].hold_started_at # Null)
            /\ Terminal(tickets[i]) =>
                  tickets[i].doing_started_at = Null /\ tickets[i].hold_started_at = Null

\* C16: a cancel request with a non-blank reason on a PENDING, DOING or HOLD
\* ticket succeeds: status CANCELLED, closed_at the request's now, open intervals
\* flushed into their accumulators, cancel_reason the trimmed reason,
\* canceled_by the actor, current_actor null; a PENDING ticket that was never
\* started keeps doing_secs = 0 and hold_secs = 0.
C16_CancelSucceeds ==
    \A i \in DOMAIN tickets : \A actor \in VerifiedActors :
        LET t == tickets[i]
            r == ApplyAction(variant, t, "cancel", actor, Some(" a "), Null, clock, clock)
            u == r.ticket
        IN
        ~Terminal(t) =>
            /\ r.ok
            /\ u.status = "CANCELLED"
            /\ u.closed_at = Some(clock)
            /\ u.doing_started_at = Null /\ u.hold_started_at = Null
            /\ u.doing_secs = t.doing_secs
                 + (IF t.doing_started_at # Null
                    THEN (clock - Val(t.doing_started_at)) \div TicksPerSec ELSE 0)
            /\ u.hold_secs = t.hold_secs
                 + (IF t.hold_started_at # Null
                    THEN (clock - Val(t.hold_started_at)) \div TicksPerSec ELSE 0)
            /\ u.cancel_reason = Some("a")
            /\ u.canceled_by = Some(actor)
            /\ u.current_actor = Null
            /\ (t.status = "PENDING" /\ t.last_action = Null) =>
                   u.doing_secs = 0 /\ u.hold_secs = 0

\* C17: hold_reason, solution, done_by, cancel_reason and canceled_by are each
\* written only by the transition that requires them (hold, done, done, cancel,
\* cancel), and a field that has a value is never overwritten afterwards.
C17_AnnotationsWrittenOnce ==
    [][\A i \in DOMAIN tickets :
         LET t == tickets[i]
             u == tickets'[i]
         IN
         /\ u.hold_reason # t.hold_reason =>
                t.hold_reason = Null /\ u.last_action = Some("hold")
         /\ u.solution # t.solution =>
                t.solution = Null /\ u.last_action = Some("done")
         /\ u.done_by # t.done_by =>
                t.done_by = Null /\ u.last_action = Some("done")
         /\ u.cancel_reason # t.cancel_reason =>
                t.cancel_reason = Null /\ u.last_action = Some("cancel")
         /\ u.canceled_by # t.canceled_by =>
                t.canceled_by = Null /\ u.last_action = Some("cancel")]_vars

\* C18: done and cancel use one instant for both flushes and for closed_at:
\* after an accepted done or cancel, closed_at is the instant against which the
\* open busy or hold interval was measured, and doing_started_at and
\* hold_started_at are both null.
C18_OneInstant ==
    \A i \in DOMAIN tickets :
        LET t == tickets[i] IN
        /\ Terminal(t) => t.doing_started_at = Null /\ t.hold_started_at = Null
        /\ \A actor \in VerifiedActors : \A act \in {"done", "cancel"} :
              LET r == ApplyAction(variant, t, act, actor, Some(" a "), Some(" a "),
                                   clock, clock)
                  u == r.ticket
                  flushed(start) == IF start = Null THEN 0
                                    ELSE (Val(u.closed_at) - Val(start)) \div TicksPerSec
              IN  r.ok =>
                      /\ u.closed_at = Some(clock)
                      /\ u.doing_started_at = Null /\ u.hold_started_at = Null
                      /\ u.doing_secs = t.doing_secs + flushed(t.doing_started_at)
                      /\ u.hold_secs = t.hold_secs + flushed(t.hold_started_at)

\* a ticket cancelled at this instant whose hold interval was flushed
C18_Witness ==
    \E i \in DOMAIN tickets :
        /\ tickets[i].status = "CANCELLED"
        /\ tickets[i].closed_at = Some(clock)
        /\ tickets[i].hold_secs >= 1
        /\ tickets[i].hold_started_at = Null

\* C19: for every closed ticket the report's total is closed_at - created_at
\* in whole seconds and its waiting time is
\* max(0, total - doing_secs - hold_secs); for doing at t0+10, hold at t0+70,
\* doing at t0+130, done at t0+190 the waiting time is 10 and
\* waiting + doing_secs + hold_secs equals the total.
C19_ReportedWaiting ==
    /\ \A v \in Variants :
          LET s == ScenarioTicket(v) IN
          /\ ReportSumSecs(s) = 190
          /\ ReportWaiting(s) = 10
          /\ ReportWaiting(s) + s.doing_secs + s.hold_secs = ReportSumSecs(s)
    /\ \A i \in DOMAIN tickets :
          LET t == tickets[i]
              total == (Val(t.closed_at) - t.created_at) \div TicksPerSec
              rest == total - t.doing_secs - t.hold_secs
          IN  t.closed_at # Null =>
                  /\ ReportSumSecs(t) = total
                  /\ ReportWaiting(t) = IF rest >= 0 THEN rest ELSE 0

\* a closed ticket that waited, was worked on and was held, a second each
C19_Witness ==
    \E i \in DOMAIN tickets :
        /\ tickets[i].closed_at # Null
        /\ ReportWaiting(tickets[i]) >= 1
        /\ tickets[i].doing_secs + tickets[i].hold_secs >= 1

\* the responses (status code and detail) ticket_action gives in the current
\* state to requests that meet the rejection condition cond(t, act, actor, text)
RejectionResponses(cond(_, _, _, _)) ==
    {<<r.ok, r.code, r.detail>> :
        r \in {ApplyAction(variant, tickets[q[1]], q[2], q[3], q[4], q[4], clock, clock) :
                 q \in {p \in (DOMAIN tickets) \X {"doing", "hold", "done", "cancel"}
                                \X VerifiedActors \X TextInputs :
                           cond(tickets[p[1]], p[2], p[3], p[4])}}}

WrongActor(t, act, actor, txt) == OwnershipConflict(variant, t, act, actor)

AlreadyInState(t, act, actor, txt) ==
    /\ ~WrongActor(t, act, actor, txt)
    /\ (act = "doing" /\ t.status = "DOING") \/ (act = "hold" /\ t.status = "HOLD")

MissingText(t, act, actor, txt) ==
    /\ ~WrongActor(t, act, actor, txt)
    /\ ~AlreadyInState(t, act, actor, txt)
    /\ act \in {"hold", "done", "cancel"}
    /\ txt \in BlankTexts

\* C20: the rejection conditions of ticket_action give distinguishable errors:
\* the response to "already in this state" (doing on DOING, hold on HOLD)
\* differs from the response to "wrong actor", and both differ from the
\* response to missing required text (which alone carries status 400).
C20_DistinctErrors ==
    LET state == RejectionResponses(AlreadyInState)
        owner == RejectionResponses(WrongActor)
        text  == RejectionResponses(MissingText)
    IN
    /\ \A x \in state \cup owner \cup text : x[1] = FALSE
    /\ state \cap owner = {}
    /\ state \cap text = {}
    /\ owner \cap text = {}
    /\ \A x \in state \cup owner : x[2] = 409
    /\ \A x \in text : x[2] = 400

\* a ticket in progress for which all three kinds of rejection occur: its
\* owner presses the same action again or leaves the text blank, and another
\* authenticated user sends done
C20_Witness ==
    /\ RejectionResponses(AlreadyInState) # {}
    /\ RejectionResponses(WrongActor) # {}
    /\ RejectionResponses(MissingText) # {}

\* C21: flushing is idempotent: a second _acc_doing_until_now (or
\* _acc_hold_until_now), at the same or a later instant and with no start in
\* between, changes neither the accumulator nor the start timestamp, and a
\* flush with no open interval changes nothing.
C21_FlushIdempotent ==
    \A i \in DOMAIN tickets : \A later \in {clock, clock + 1, clock + TicksPerSec} :
        LET t == tickets[i]
            d1 == _acc_doing_until_now(t, clock)
            h1 == _acc_hold_until_now(t, clock)
        IN
        /\ _acc_doing_until_now(d1, later) = d1
        /\ _acc_hold_until_now(h1, later) = h1
        /\ t.doing_started_at = Null => d1 = t
        /\ t.hold_started_at = Null => h1 = t

\* a busy interval of at least a second is open, so the first flush adds to
\* doing_secs, while no hold interval is open
C21_Witness ==
    \E i \in DOMAIN tickets :
        /\ tickets[i].doing_started_at # Null
        /\ tickets[i].hold_started_at = Null
        /\ _acc_doing_until_now(tickets[i], clock).doing_secs > tickets[i].doing_secs

\* C22: the ticket create_request inserts has status PENDING, doing_secs = 0,
\* hold_secs = 0, doing_started_at, hold_started_at, closed_at and
\* current_actor null.
C22_CreatedPending ==
    [][Len(tickets') > Len(tickets) =>
          /\ Len(tickets') = Len(tickets) + 1
          /\ LET n == tickets'[Len(tickets')] IN
             /\ n.status = "PENDING"
             /\ n.doing_secs = 0 /\ n.hold_secs = 0
             /\ n.doing_started_at = Null /\ n.hold_started_at = Null
             /\ n.closed_at = Null
             /\ n.current_actor = Null]_vars

\* a ticket as create_request left it, no action taken on it yet
C22_Witness ==
    \E i \in DOMAIN tickets :
        /\ tickets[i].status = "PENDING"
        /\ tickets[i].last_action = Null
        /\ tickets[i].created_at = clock

\* the request comes from someone other than the actor working on the ticket
NonOwner(t, actor) ==
    Active(t) /\ t.current_actor # Null /\ Val(t.current_actor) # actor

\* the outcomes of one request under the two implementations
StrictOutcome(t, actor, req, d) ==
    ApplyAction("strict", t, NormAction(req.action), actor, req.reason, req.solution,
                clock, clock + d)

LenientOutcome(t, actor, req, d) ==
    ApplyAction("lenient", t, NormAction(req.action), actor, req.reason, req.solution,
                clock, clock + d)

\* the two implementations disagree on a request: one accepts it and the other
\* does not, or the tickets they leave differ
Disagree(so, lo) == so.ok # lo.ok \/ so.ticket # lo.ticket

\* C23 as stated: what the strict implementation accepts the lenient one
\* accepts with the same resulting ticket, and the requests on which the two
\* disagree are exactly doing, hold and cancel by an actor other than
\* current_actor on a DOING or HOLD ticket.
C23_DisagreeOnEveryNonOwnerRequest ==
    \A i \in DOMAIN tickets : \A actor \in VerifiedActors :
    \A req \in ActionRequests : \A d \in Drifts(NormAction(req.action)) :
        LET t == tickets[i]
            so == StrictOutcome(t, actor, req, d)
            lo == LenientOutcome(t, actor, req, d)
        IN
        /\ so.ok => lo.ok /\ lo.ticket = so.ticket
        /\ Disagree(so, lo) <=>
              NonOwner(t, actor) /\ NormAction(req.action) \in {"doing", "hold", "cancel"}

\* C23 amended: what the strict implementation accepts the lenient one accepts
\* with the same resulting ticket; the two disagree exactly on the requests of
\* an actor other than current_actor on a DOING or HOLD ticket that the lenient
\* implementation accepts: doing on a HOLD ticket, hold with a non-blank reason
\* on a DOING ticket, and cancel with a non-blank reason. On a request both
\* refuse the answers differ only in that the strict one is the ownership
\* conflict.
C23_StrictRefinesLenient ==
    \A i \in DOMAIN tickets : \A actor \in VerifiedActors :
    \A req \in ActionRequests : \A d \in Drifts(NormAction(req.action)) :
        LET t == tickets[i]
            act == NormAction(req.action)
            so == StrictOutcome(t, actor, req, d)
            lo == LenientOutcome(t, actor, req, d)
        IN
        /\ so.ok => lo.ok /\ lo.ticket = so.ticket
        /\ Disagree(so, lo) <=>
              /\ NonOwner(t, actor)
              /\ \/ act = "doing" /\ t.status = "HOLD"
                 \/ act = "hold" /\ t.status = "DOING" /\ req.reason \notin BlankTexts
                 \/ act = "cancel" /\ req.reason \notin BlankTexts
        /\ so # lo => NonOwner(t, actor) /\ so.code = 409 /\ so.detail = "owner_conflict"

\* a ticket in progress and a second authenticated user whose cancel the
\* lenient implementation accepts and the strict one refuses, and whose repeated
\* action both refuse
C23_Witness ==
    \E i \in DOMAIN tickets : \E actor \in VerifiedActors :
        LET t == tickets[i]
            cancelreq == [action |-> "cancel", reason |-> Some(" a "), solution |-> Null]
            again == [action |-> "doing", reason |-> Null, solution |-> Null]
        IN
        /\ t.status = "DOING"
        /\ NonOwner(t, actor)
        /\ LenientOutcome(t, actor, cancelreq, 0).ok
        /\ ~StrictOutcome(t, actor, cancelreq, 0).ok
        /\ ~LenientOutcome(t, actor, again, 0).ok
        /\ ~StrictOutcome(t, actor, again, 0).ok

\* C24: the open interval matches the status: status = DOING exactly when
\* doing_started_at is set, status = HOLD exactly when hold_started_at is set,
\* and a PENDING, DONE or CANCELLED ticket has neither.
C24_IntervalMatchesStatus ==
    \A i \in DOMAIN tickets :
        /\ tickets[i].status = "DOING" <=> tickets[i].doing_started_at # Null
        /\ tickets[i].status = "HOLD" <=> tickets[i].hold_started_at # Null
        /\ tickets[i].status \in {"PENDING", "DONE", "CANCELLED"} =>
              tickets[i].doing_started_at = Null /\ tickets[i].hold_started_at = Null

\* a ticket put on hold after it was worked on for a second
C24_Witness ==
    \E i \in DOMAIN tickets :
        /\ tickets[i].status = "HOLD"
        /\ tickets[i].last_action = Some("hold")
        /\ tickets[i].doing_secs >= 1

\* C25: last_action corresponds to status (null with PENDING, "doing" with
\* DOING, "hold" with HOLD, "done" with DONE, "cancel" with CANCELLED), and
\* done_by is set only on a ticket that has been DONE, canceled_by only on one
\* that has been CANCELLED: each is written by a step that ends in that status.
C25_LastActionMatchesStatus ==
    /\ [](\A i \in DOMAIN tickets :
            LET t == tickets[i] IN
            /\ t.last_action = Null <=> t.status = "PENDING"
            /\ t.last_action = Some("doing") <=> t.status = "DOING"
            /\ t.last_action = Some("hold") <=> t.status = "HOLD"
            /\ t.last_action = Some("done") <=> t.status = "DONE"
            /\ t.last_action = Some("cancel") <=> t.status = "CANCELLED"
            /\ t.status = "PENDING" => t.done_by = Null /\ t.canceled_by = Null)
    /\ [][\A i \in DOMAIN tickets :
            /\ tickets'[i].done_by # tickets[i].done_by =>
                  tickets'[i].done_by # Null /\ tickets'[i].status = "DONE"
            /\ tickets'[i].canceled_by # tickets[i].canceled_by =>
                  tickets'[i].canceled_by # Null /\ tickets'[i].status = "CANCELLED"]_vars

\* a ticket that was worked on and then closed with done
C25_Witness ==
    \E i \in DOMAIN tickets :
        /\ tickets[i].status = "DONE"
        /\ tickets[i].last_action = Some("done")
        /\ tickets[i].done_by # Null
        /\ tickets[i].canceled_by = Null
        /\ tickets[i].doing_secs >= 1

\* C26: from every PENDING, DOING or HOLD ticket a terminal state stays
\* reachable: as long as a user exists, some ticket_action request of an
\* existing user (acting under its own name with its own password) is accepted
\* and closes the ticket, also after admin_delete_user has removed the user
\* named in current_actor.
C26_ClosableByExistingUser ==
    \A i \in DOMAIN tickets :
        (~Terminal(tickets[i]) /\ \E u \in Usernames : UserExists(users, u)) =>
            \E u \in {n \in Usernames : UserExists(users, n)} :
            \E act \in {"done", "cancel"} :
                LET r == ApplyAction(variant, tickets[i], act, u, Some(" a "), Some(" a "),
                                     clock, clock)
                IN  r.ok /\ Terminal(r.ticket)

\* C27: ACTIVE_VERSION never decreases and counts the committed changes: a
\* request that commits owes one bump, every bump adds exactly 1 to the value
\* the counter has at that moment (no increment of an overlapping request is
\* lost), the counter changes in no other step, and a request that is refused
\* neither commits nor bumps.
C27_VersionCountsCommits ==
    [][/\ ACTIVE_VERSION' >= ACTIVE_VERSION
       /\ \A w \in Workers :
             /\ (workers[w].pc = "read" /\ workers'[w].pc = "idle") =>
                    ACTIVE_VERSION' = ACTIVE_VERSION + 1
             /\ (workers[w].pc = "idle" /\ workers'[w].pc # "idle") =>
                    /\ workers'[w].pc = "committed"
                    /\ ACTIVE_VERSION' = ACTIVE_VERSION
       /\ ACTIVE_VERSION' # ACTIVE_VERSION =>
             /\ tickets' = tickets
             /\ Cardinality({w \in Workers : workers[w].pc = "read"
                                             /\ workers'[w].pc = "idle"}) = 1
       /\ tickets' # tickets =>
             Cardinality({w \in Workers : workers[w].pc = "idle"
                                          /\ workers'[w].pc = "committed"}) = 1
       /\ PendingBumps' < PendingBumps => ACTIVE_VERSION' = ACTIVE_VERSION + 1]_vars

\* two requests have committed and been counted while a third, committed on
\* another worker, has yet to bump
C27_Witness ==
    /\ ACTIVE_VERSION = 2
    /\ \E w \in Workers : workers[w].pc = "committed"
    /\ tickets # <<>>

\* C28: no ticket field changes unless the acting user exists and that user's
\* password was verified in the same request, so every current_actor, done_by
\* and canceled_by that a request writes is the name of a user whose password
\* that request verified, also when the form field who names a user other than
\* the session user.
C28_WriterIsVerified ==
    /\ [](\A cookie \in SessionCookies :
          \A who \in {Null, Some(""), Some(" alice "), Some("ghost")} :
          \A password \in {"bad", AdminPassword, " pw "} :
              LET a == Authenticate(users, cookie, who, password) IN
              a.ok =>
                  /\ a.actor = Strip(IF Truthy(who) THEN Val(who) ELSE Val(cookie))
                  /\ UserExists(users, a.actor)
                  /\ verify_password(password, Val(users[a.actor]).password_hash))
    /\ [][\A i \in DOMAIN tickets :
            LET t == tickets[i]
                u == tickets'[i]
            IN
            u # t =>
                \E actor \in VerifiedActors :
                    /\ UserExists(users, actor)
                    /\ u.current_actor \in {Null, Some(actor)}
                    /\ u.done_by # t.done_by => u.done_by = Some(actor)
                    /\ u.canceled_by # t.canceled_by => u.canceled_by = Some(actor)]_vars

\* alice works on a ticket, and a request from ADMIN's session that names
\* alice in who and carries alice's password is authenticated as alice
C28_Witness ==
    \E i \in DOMAIN tickets :
        /\ tickets[i].current_actor = Some("alice")
        /\ Authenticate(users, Some("ADMIN"), Some(" alice "), " pw ").ok
        /\ ~Authenticate(users, Some("ADMIN"), Some(" alice "), AdminPassword).ok

\* the users table holds an Admin row under this name
HasAdminRole(us, u) == UserExists(us, u) /\ Lower(Val(us[u]).role) = "admin"

\* no name holds the Admin role in vs without holding it in us already
NoNewAdmin(us, vs) == \A u \in Usernames : HasAdminRole(vs, u) => HasAdminRole(us, u)

\* the cookies a client can obtain from do_login in the current state, with
\* Null for a client that has none
LoginCookies ==
    {do_login(users, n, p) : n \in NameInputs, p \in {"pw", "pw2", AdminPassword}}
        \cup {Null}

\* the session is one of a user whose role is Admin
AdminRoleSession(us, cookie) == SessionOK(us, cookie) /\ HasAdminRole(us, Val(cookie))

\* C29: a user row with role Admin comes into existence only through a request
\* of a session that is already an admin: a signup request, and an
\* admin_create_user or admin_update_user request of a client without a
\* session or with the session of a non-admin user, neither creates an Admin
\* user nor promotes one to Admin.
C29_AdminOnlyFromAdmin ==
    /\ \A username \in NameInputs, password \in PasswordForms, role \in Roles :
           /\ NoNewAdmin(users, SignupOutcome(users, username, password, role))
           /\ \A cookie \in LoginCookies :
                  ~AdminRoleSession(users, cookie) =>
                      NoNewAdmin(users, AdminCreateOutcome(users, cookie, username,
                                                           password, role))
    /\ \A cookie \in LoginCookies, target \in Usernames,
          role \in Roles, new_password \in NewPasswords :
           ~AdminRoleSession(users, cookie) =>
               NoNewAdmin(users, AdminUpdateOutcome(users, cookie, target, role,
                                                    new_password))

\* C30: after any sequence of signup, admin_create_user, admin_update_user and
\* admin_delete_user requests the user ADMIN exists, and no such request of a
\* client whose session user is not ADMIN changes ADMIN's role or password.
C30_AdminAccountProtected ==
    /\ UserExists(users, "ADMIN")
    /\ \A cookie \in LoginCookies \ {Some("ADMIN")} :
           /\ \A target \in Usernames :
                  AdminDeleteOutcome(users, cookie, target)["ADMIN"] = users["ADMIN"]
           /\ \A username \in NameInputs, password \in PasswordForms, role \in Roles :
                  /\ SignupOutcome(users, username, password, role)["ADMIN"]
                         = users["ADMIN"]
                  /\ AdminCreateOutcome(users, cookie, username, password, role)["ADMIN"]
                         = users["ADMIN"]
           /\ \A target \in Usernames, role \in Roles, new_password \in NewPasswords :
                  AdminUpdateOutcome(users, cookie, target, role, new_password)["ADMIN"]
                      = users["ADMIN"]

====
